---- MODULE Spec2Model ----
(***************************************************************************)
(* Model of cosmonautd/turret: modules/soundcat.py (Soundcat),             *)
(* modules/imgutils.py (detect_pattern, box) and modules/detect.py         *)
(* (single_cascade, double_cascade, motion_detection).                     *)
(*                                                                         *)
(* The cascade classifier, the contour extractor, the file system and the  *)
(* audio mixer are external: their answers are inputs chosen with \E.      *)
(***************************************************************************)
EXTENDS Integers, Sequences, FiniteSets, TLC

\* ------------------------------------------------------------------ bounds
\* 1/self.pps of the constructed Soundcat, in clock ticks
Period == 3
\* the clock stops advancing here
MaxTime == 6
\* number of recent play() calls remembered in log
MaxCalls == 2
\* classifier hits per call on the full frame
MaxCoarse == 2
\* classifier hits per call on one crop
MaxFine == 2
\* contours per motion_detection call
MaxContours == 2

\* ================================================================ Soundcat
\* categories, last_play_time: the fields of the Soundcat; mixer: pygame.mixer is
\* initialised; now: the clock; result: the outcome of the latest play call;
\* log: the rate-limited play calls on a playable category made less than Period ago
VARIABLES categories, last_play_time, mixer, now, result, log
\* detect.py, cascades: position, call arguments, frame, locals, result
VARIABLES pc, fn, return_faces, drawboxes, frame, raw_upperbody, rects_upperbody,
          idx, rects_face, regions, dp, ret
\* detect.py, motion_detection: position, contours, loop index, frame, found, result
VARIABLES m_pc, cnts, m_idx, m_frame, m_found, m_ret

CascadeVars == << pc, fn, return_faces, drawboxes, frame, raw_upperbody, rects_upperbody,
                 idx, rects_face, regions, dp, ret >>
MotionVars == << m_pc, cnts, m_idx, m_frame, m_found, m_ret >>

Names == {"Hello", "Alarm"}
Dirs == {"sounds", "docs", "nowhere"}
NoResult == [op |-> "none"]
NoSample == [stem |-> "", ext |-> ""]

\* os.path.isdir for the directories of the model: "nowhere" does not exist
isdir(d) == d # "nowhere"

\* os.listdir: the entries of a directory
listdir(d) ==
  IF d = "sounds"
    THEN << [stem |-> "hi", ext |-> "wav"], [stem |-> "notes", ext |-> "txt"],
            [stem |-> "yo", ext |-> "wav"] >>
    ELSE IF d = "docs" THEN << [stem |-> "readme", ext |-> "txt"] >>
    ELSE << >>

\* entry.endswith(".wav") filter of play
wav_sounds(entries) == SelectSeq(entries, LAMBDA e : e.ext = "wav")

\* the values random.randrange(0, n) can return (0 stands for the failing call when n = 0)
randrange(n) == IF n > 0 THEN 0 .. (n - 1) ELSE {0}

\* the rate-limit test of play
rate_limit_open(use_pps, t, last) == (~use_pps) \/ (t - last > Period)

\* the body of play under the rate-limit test; t2 is the second clock reading
outcome(exc, sample, stamped, last) ==
  [exc |-> exc, sample |-> sample, stamped |-> stamped, last |-> last]

play_sample_no_stamp(cats, last, mix, category_name, t2, r) ==
  IF category_name \notin DOMAIN cats THEN outcome("KeyError", NoSample, FALSE, last)
  ELSE IF ~isdir(cats[category_name]) THEN outcome("OSError", NoSample, FALSE, last)
  ELSE LET sounds == wav_sounds(listdir(cats[category_name])) IN
       IF Len(sounds) = 0 THEN outcome("ValueError", NoSample, FALSE, last)
       ELSE IF ~mix THEN outcome("pygame.error", NoSample, FALSE, last)
       ELSE outcome("none", sounds[r + 1], FALSE, last)

play_sample(cats, last, mix, category_name, t2, r) ==
  IF category_name \notin DOMAIN cats THEN outcome("KeyError", NoSample, FALSE, last)
  ELSE IF ~isdir(cats[category_name]) THEN outcome("OSError", NoSample, FALSE, last)
  ELSE LET sounds == wav_sounds(listdir(cats[category_name])) IN
       IF Len(sounds) = 0 THEN outcome("ValueError", NoSample, FALSE, last)
       ELSE IF ~mix THEN outcome("pygame.error", NoSample, FALSE, last)
       ELSE outcome("none", sounds[r + 1], TRUE, t2)

\* Soundcat.play as a function of the object, the arguments, the two clock
\* readings and the random draw
play_call_stamps_suppressed(cats, last, mix, category_name, use_pps, t1, t2, r) ==
  IF rate_limit_open(use_pps, t1, last)
    THEN play_sample(cats, last, mix, category_name, t2, r)
    ELSE outcome("none", NoSample, TRUE, t1)

play_call(cats, last, mix, category_name, use_pps, t1, t2, r) ==
  IF rate_limit_open(use_pps, t1, last)
    THEN play_sample(cats, last, mix, category_name, t2, r)
    ELSE outcome("none", NoSample, FALSE, last)

\* number of .wav files play would find for a name (0 if unregistered or no directory)
nsounds(cats, name) ==
  IF name \in DOMAIN cats /\ isdir(cats[name])
    THEN Len(wav_sounds(listdir(cats[name]))) ELSE 0

Min(a, b) == IF a < b THEN a ELSE b

\* the calls of s made less than Period before t, the latest MaxCalls of them
recent(s, t) ==
  LET live == SelectSeq(s, LAMBDA e : t - e.t < Period) IN
    IF Len(live) > MaxCalls THEN SubSeq(live, Len(live) - MaxCalls + 1, Len(live)) ELSE live

SoundVars == << categories, last_play_time, mixer, now, result, log >>

\* Soundcat.__init__: mixer initialised, no category, timestamp = time.time()
SoundInit ==
  /\ categories = << >>
  /\ mixer = TRUE
  /\ now = 0
  /\ last_play_time = 0
  /\ result = NoResult
  /\ log = << >>

\* time passes between calls
tick ==
  /\ now < MaxTime
  /\ now' = now + 1
  /\ log' = recent(log, now + 1)
  /\ UNCHANGED << categories, last_play_time, mixer, result, CascadeVars, MotionVars >>

\* Soundcat.quit
quit ==
  /\ mixer' = FALSE
  /\ UNCHANGED << categories, last_play_time, now, result, log, CascadeVars, MotionVars >>

\* Soundcat.add_category
add_category ==
  \E category_name \in Names, directory \in Dirs :
    /\ categories' = [n \in (DOMAIN categories) \cup {category_name} |->
                        IF n = category_name THEN directory ELSE categories[n]]
    /\ UNCHANGED << last_play_time, mixer, now, result, log, CascadeVars, MotionVars >>

\* Soundcat.play
play ==
  \E category_name \in Names, use_pps \in BOOLEAN, t2 \in now .. Min(now + 1, MaxTime) :
    \E r \in randrange(nsounds(categories, category_name)) :
      LET o == play_call(categories, last_play_time, mixer, category_name,
                         use_pps, now, t2, r)
          played == o.sample # NoSample
          end == IF played THEN t2 ELSE now
      IN
        /\ last_play_time' = o.last
        /\ now' = end
        /\ result' = [op |-> "play", name |-> category_name, use_pps |-> use_pps,
                      registered |-> category_name \in DOMAIN categories,
                      n |-> nsounds(categories, category_name),
                      mixer |-> mixer, due |-> now - last_play_time > Period,
                      exc |-> o.exc, sample |-> o.sample, stamped |-> o.stamped]
        /\ log' = IF use_pps /\ nsounds(categories, category_name) > 0
                    THEN recent(Append(log, [t |-> now, played |-> played]), end)
                    ELSE recent(log, end)
        /\ UNCHANGED << categories, mixer, CascadeVars, MotionVars >>

SoundNext == tick \/ quit \/ add_category \/ play

\* ============================================================ imgutils.py
\* all sequences over S of length at most n
SeqsUpTo(S, n) == UNION { [1 .. k -> S] : k \in 0 .. n }
\* the answers a detector can give: distinct rows of S, at most n of them
Answers(S, n) ==
  { s \in SeqsUpTo(S, n) : \A i, j \in 1 .. Len(s) : i # j => s[i] # s[j] }

\* detect_pattern: hits is what cascade.detectMultiScale answers for img,
\* rows (x, y, width, height); the result rows are (x1, y1, x2, y2)
detect_pattern_no_conversion(img, hits) == << hits, img >>
detect_pattern(img, hits) ==
  IF Len(hits) = 0 THEN << << >>, img >>
  ELSE << [i \in 1 .. Len(hits) |->
             << hits[i][1], hits[i][2], hits[i][3] + hits[i][1], hits[i][4] + hits[i][2] >>],
          img >>

\* box: one cv2.rectangle per row of coords, drawn on img; a frame is modelled
\* by the sequence of rectangles drawn on it
box(coords, img, color) ==
  img \o [i \in 1 .. Len(coords) |-> [rect |-> coords[i], color |-> color]]

\* ============================================== detect.py, the two cascades
Green == "green"
Red == "red"
NoRects == << "not returned" >>
NoCall == [img |-> << >>, hits |-> << >>, rects |-> << >>, out |-> << >>]
NoRet == [frame |-> << >>, found |-> FALSE, rects |-> NoRects]

\* answers of the upper-body classifier on the frame, (x, y, width, height), at least 60x60
UpperbodyHits == { << 100, 50, 80, 80 >>, << 10, 20, 60, 60 >>, << 200, 100, 90, 90 >> }
\* answers of the face classifier on a crop, (x, y, width, height), at least 25x25
FaceHits == { << 5, 5, 25, 25 >>, << 20, 10, 30, 30 >>, << 30, 32, 26, 26 >> }

\* frame[y:h, x:w] for a corner-form rectangle r = (x, y, w, h): a view of img
crop(img, r) == [of |-> img, rows |-> << r[2], r[4] >>, cols |-> << r[1], r[3] >>]
\* the size of that crop
crop_width(r) == r[3] - r[1]
crop_height(r) == r[4] - r[2]
fits(hits, r) ==
  \A i \in 1 .. Len(hits) :
    hits[i][1] + hits[i][3] <= crop_width(r) /\ hits[i][2] + hits[i][4] <= crop_height(r)

\* xf += x; yf += y; wf += x; hf += y
translate(f, x, y) == << f[1] + x, f[2] + y, f[3] + x, f[4] + y >>
translate_all(fs, x, y) == [i \in 1 .. Len(fs) |-> translate(fs[i], x, y)]

\* found of single_cascade
single_found_nonnegative(rects) == Len(rects) >= 0
single_found(rects) == Len(rects) > 0

\* found of double_cascade
double_found(faces) == Len(faces) > 0

\* the list returned with return_faces:
\* [(xf+x, ...) for xf, yf, wf, hf in rects_face for x, y, w, h in rects_upperbody]
returned_faces(faces, upper) ==
  [k \in 1 .. (Len(faces) * Len(upper)) |->
     LET i == ((k - 1) \div Len(upper)) + 1
         j == ((k - 1) % Len(upper)) + 1
     IN translate(faces[i], upper[j][1], upper[j][2])]

CascadeInit ==
  /\ pc = "idle"
  /\ fn = "none"
  /\ return_faces = FALSE
  /\ drawboxes = FALSE
  /\ frame = << >>
  /\ raw_upperbody = << >>
  /\ rects_upperbody = << >>
  /\ idx = 0
  /\ rects_face = << >>
  /\ regions = << >>
  /\ dp = NoCall
  /\ ret = NoRet

\* single_cascade, whole call
single_cascade ==
  /\ pc = "idle"
  /\ \E hits \in Answers(UpperbodyHits, MaxCoarse), rf \in BOOLEAN, db \in BOOLEAN :
       LET d == detect_pattern(frame, hits)
           rects == d[1]
           drawn == IF db THEN box(rects, d[2], Green) ELSE d[2]
       IN /\ fn' = "single"
          /\ return_faces' = rf
          /\ drawboxes' = db
          /\ raw_upperbody' = hits
          /\ rects_upperbody' = rects
          /\ dp' = [img |-> frame, hits |-> hits, rects |-> rects, out |-> d[2]]
          /\ frame' = drawn
          /\ ret' = [frame |-> drawn, found |-> single_found(rects),
                     rects |-> IF rf THEN rects ELSE NoRects]
          /\ pc' = "done"
  /\ UNCHANGED << idx, rects_face, regions, SoundVars, MotionVars >>

\* double_cascade up to the loop: coarse detection, green boxes, locals
double_cascade_upperbody ==
  /\ pc = "idle"
  /\ \E hits \in Answers(UpperbodyHits, MaxCoarse), rf \in BOOLEAN :
       LET d == detect_pattern(frame, hits) IN
          /\ fn' = "double"
          /\ return_faces' = rf
          /\ raw_upperbody' = hits
          /\ rects_upperbody' = d[1]
          /\ dp' = [img |-> frame, hits |-> hits, rects |-> d[1], out |-> d[2]]
          /\ frame' = box(d[1], d[2], Green)
          /\ rects_face' = << >>
          /\ regions' = << >>
          /\ idx' = 1
          /\ pc' = IF Len(d[1]) > 0 THEN "loop" ELSE "return"
  /\ UNCHANGED << drawboxes, ret, SoundVars, MotionVars >>

\* one iteration of the loop over rects_upperbody: crop, fine detection, red boxes
double_cascade_face ==
  /\ pc = "loop"
  /\ LET u == rects_upperbody[idx] IN
       \E hits \in { h \in Answers(FaceHits, MaxFine) : fits(h, u) } :
         LET frame_crop == crop(frame, u)
             d == detect_pattern(frame_crop, hits)
         IN
           /\ rects_face' = d[1]
           /\ dp' = [img |-> frame_crop, hits |-> hits, rects |-> d[1], out |-> d[2]]
           /\ frame' = box(translate_all(d[1], u[1], u[2]), frame, Red)
           /\ regions' = Append(regions, d[1])
  /\ idx' = idx + 1
  /\ pc' = IF idx = Len(rects_upperbody) THEN "return" ELSE "loop"
  /\ UNCHANGED << fn, return_faces, drawboxes, raw_upperbody, rects_upperbody, ret,
                  SoundVars, MotionVars >>

\* double_cascade after the loop: found and the returned tuple
double_cascade_return ==
  /\ pc = "return"
  /\ ret' = [frame |-> frame, found |-> double_found(rects_face),
             rects |-> IF return_faces THEN returned_faces(rects_face, rects_upperbody)
                       ELSE NoRects]
  /\ pc' = "done"
  /\ UNCHANGED << fn, return_faces, drawboxes, frame, raw_upperbody, rects_upperbody,
                  idx, rects_face, regions, dp, SoundVars, MotionVars >>

CascadeNext ==
  single_cascade \/ double_cascade_upperbody \/ double_cascade_face \/ double_cascade_return

\* ============================================ detect.py, motion_detection
min_area == 200
max_area == 245760

\* what findContours can answer: contourArea and boundingRect of each contour
Contours ==
  { [area |-> a, x |-> a - 190, y |-> 20, w |-> b[1], h |-> b[2]] :
      a \in {199, 200, 201}, b \in { << 20, 20 >>, << 512, 480 >>, << 513, 480 >> } }

\* the two tests of the loop: neither continue is taken
contour_kept_strict(c) == ~(c.area <= min_area) /\ ~(c.w * c.h > max_area)
contour_kept(c) == ~(c.area < min_area) /\ ~(c.w * c.h > max_area)

\* cv2.rectangle(frame, (x, y), (x + w, y + h), (0, 255, 0), 2)
contour_box(c) == << c.x, c.y, c.x + c.w, c.y + c.h >>

MotionInit ==
  /\ m_pc = "idle"
  /\ cnts = << >>
  /\ m_idx = 0
  /\ m_frame = << >>
  /\ m_found = FALSE
  /\ m_ret = [frame |-> << >>, raw_frame |-> << >>, found |-> FALSE]

\* motion_detection up to the loop: found = False, the contours of the difference
motion_detection_contours ==
  /\ m_pc = "idle"
  /\ \E cs \in Answers(Contours, MaxContours) : cnts' = cs
  /\ m_found' = FALSE
  /\ m_idx' = 1
  /\ m_pc' = "loop"
  /\ UNCHANGED << m_frame, m_ret, SoundVars, CascadeVars >>

\* one iteration of the loop over cnts
motion_detection_contour ==
  /\ m_pc = "loop"
  /\ m_idx <= Len(cnts)
  /\ IF contour_kept(cnts[m_idx])
       THEN /\ m_frame' = box(<< contour_box(cnts[m_idx]) >>, m_frame, Green)
            /\ m_found' = TRUE
       ELSE UNCHANGED << m_frame, m_found >>
  /\ m_idx' = m_idx + 1
  /\ UNCHANGED << m_pc, cnts, m_ret, SoundVars, CascadeVars >>

\* return frame, raw_frame, found
motion_detection_return ==
  /\ m_pc = "loop"
  /\ m_idx > Len(cnts)
  /\ m_ret' = [frame |-> m_frame, raw_frame |-> << >>, found |-> m_found]
  /\ m_pc' = "done"
  /\ UNCHANGED << cnts, m_idx, m_frame, m_found, SoundVars, CascadeVars >>

MotionNext ==
  motion_detection_contours \/ motion_detection_contour \/ motion_detection_return

\* ========================================================== specifications
vars == << SoundVars, CascadeVars, MotionVars >>

Init == SoundInit /\ CascadeInit /\ MotionInit

SpecSoundcat == Init /\ [][SoundNext]_vars
SpecCascade == Init /\ [][CascadeNext]_vars
SpecMotion == Init /\ [][MotionNext]_vars

\* ================================================================== claims
done_double == pc = "done" /\ fn = "double"

\* the rectangles drawn in a colour on a frame, in drawing order
drawn_in(img, color) ==
  LET boxes == SelectSeq(img, LAMBDA b : b.color = color) IN
    [i \in 1 .. Len(boxes) |-> boxes[i].rect]

\* the fine rectangles of the first k coarse regions, as detected in their crops
RECURSIVE faces_of_regions(_)
faces_of_regions(k) == IF k = 0 THEN << >> ELSE faces_of_regions(k - 1) \o regions[k]

\* the fine rectangles of the first k coarse regions, each shifted by the origin
\* of the region it was detected in
RECURSIVE faces_in_frame(_)
faces_in_frame(k) ==
  IF k = 0 THEN << >>
  ELSE faces_in_frame(k - 1) \o
       [i \in 1 .. Len(regions[k]) |->
          << regions[k][i][1] + rects_upperbody[k][1], regions[k][i][2] + rects_upperbody[k][2],
             regions[k][i][3] + rects_upperbody[k][1], regions[k][i][4] + rects_upperbody[k][2] >>]

\* C1: double_cascade returns found = true exactly when some coarse region of the
\* frame, not only the last one, produced a fine rectangle.
C1_FoundIffSomeRegionHasFace ==
  done_double => (ret.found <=> \E k \in 1 .. Len(regions) : Len(regions[k]) > 0)

\* C2: a play call with a name that was never registered ends in the missing-key
\* error, whatever use_pps and the elapsed time are.
C2_UnregisteredPlayFails ==
  (result.op = "play" /\ ~result.registered) => result.exc = "KeyError"

\* C3 as stated: of two rate-limited play calls on a playable category made less
\* than 1/pps apart, exactly one loads and plays a sample.
C3_ExactlyOnePlay ==
  \A i, j \in 1 .. Len(log) :
    (i < j /\ log[j].t - log[i].t < Period) => (log[i].played # log[j].played)

\* C3 amended: of two such calls at most one loads and plays a sample (the second
\* never plays when the first did), and a rate-limited call on a playable category
\* plays exactly when more than 1/pps has passed since the last-play timestamp and
\* the mixer is initialised.
C3_AtMostOnePlay ==
  /\ \A i, j \in 1 .. Len(log) :
       (i < j /\ log[j].t - log[i].t < Period) => ~(log[i].played /\ log[j].played)
  /\ (result.op = "play" /\ result.use_pps /\ result.n > 0) =>
       ((result.sample # NoSample) <=> (result.due /\ result.mixer))

C3_Witness ==
  \E i, j \in 1 .. Len(log) :
    i < j /\ log[j].t - log[i].t < Period /\ log[i].played /\ ~log[j].played

\* C4: with no classifier hit single_cascade and double_cascade return found = false
\* and (with return_faces) an empty list; so does double_cascade when there are
\* coarse rectangles but no region's crop yields a fine rectangle.
C4_NothingFound ==
  LET nothing == ~ret.found /\ (return_faces => ret.rects = << >>) IN
    /\ (pc = "done" /\ fn = "single" /\ Len(raw_upperbody) = 0) => nothing
    /\ (done_double /\ Len(raw_upperbody) = 0) => nothing
    /\ (done_double /\ Len(raw_upperbody) > 0
          /\ \A k \in 1 .. Len(regions) : Len(regions[k]) = 0) => nothing

C4_Witness ==
  /\ done_double /\ return_faces /\ Len(raw_upperbody) = 2
  /\ Len(regions) = 2 /\ \A k \in 1 .. Len(regions) : Len(regions[k]) = 0
  /\ ~ret.found /\ ret.rects = << >>

\* C5: every fine rectangle is reported in full-frame space by adding the origin of
\* the coarse region it was found in, once: the red boxes on the frame and the
\* returned list are both exactly these rectangles.
C5_FacesShiftedByOwnRegion ==
  (done_double /\ return_faces) =>
    /\ drawn_in(ret.frame, Red) = faces_in_frame(Len(regions))
    /\ ret.rects = faces_in_frame(Len(regions))

\* C6: motion_detection returns found = true exactly when some contour has
\* contourArea >= min_area and bounding-box area <= max_area, draws one box per such
\* contour, and with no contour returns found = false and draws nothing.
C6_MotionFound ==
  m_pc = "done" =>
    LET good == { i \in 1 .. Len(cnts) :
                    cnts[i].area >= 200 /\ cnts[i].w * cnts[i].h <= 245760 } IN
      /\ m_ret.found <=> good # {}
      /\ Len(m_ret.frame) = Cardinality(good)
      /\ \A b \in 1 .. Len(m_ret.frame) :
           \E i \in good : m_ret.frame[b].rect =
              << cnts[i].x, cnts[i].y, cnts[i].x + cnts[i].w, cnts[i].y + cnts[i].h >>
      /\ Len(cnts) = 0 => (~m_ret.found /\ m_ret.frame = << >>)

C6_Witness ==
  /\ m_pc = "done" /\ Len(cnts) = 2 /\ m_ret.found /\ Len(m_ret.frame) = 1
  /\ \E i \in 1 .. Len(cnts) : cnts[i].area = 200 /\ cnts[i].w * cnts[i].h = 245760

\* C7: once quit() was called, no step changes the category bindings or the
\* last-play timestamp, and no call loads or plays a sample.
C7_ClosedAfterQuit ==
  [][~mixer => /\ categories' = categories
               /\ last_play_time' = last_play_time
               /\ (result' # result => result'.sample = NoSample)]_vars

\* C8: detect_pattern returns, for each hit (x, y, width, height) and in the same
\* order, (x, y, x + width, y + height); no hit gives the empty sequence; the image
\* returned is the image passed.
C8_DetectPattern ==
  pc # "idle" =>
    /\ Len(dp.rects) = Len(dp.hits)
    /\ \A i \in 1 .. Len(dp.hits) :
         dp.rects[i] = << dp.hits[i][1], dp.hits[i][2],
                          dp.hits[i][1] + dp.hits[i][3], dp.hits[i][2] + dp.hits[i][4] >>
    /\ (Len(dp.hits) = 0 => dp.rects = << >>)
    /\ dp.out = dp.img

C8_Witness ==
  /\ pc = "done" /\ fn = "double" /\ Len(dp.hits) = 2 /\ dp.hits[1] # dp.hits[2]
  /\ dp.img # << >> /\ dp.rects = rects_face

\* C9: with return_faces, double_cascade returns one entry per pair of a fine hit
\* (over all coarse regions) and a coarse rectangle, the fine rectangle shifted by
\* that coarse rectangle's origin.
C9_AllFacesTimesAllRegions ==
  (done_double /\ return_faces) =>
    LET faces == faces_of_regions(Len(regions)) IN
      /\ Len(ret.rects) = Len(faces) * Len(rects_upperbody)
      /\ \A i \in 1 .. Len(faces), j \in 1 .. Len(rects_upperbody) :
           \E k \in 1 .. Len(ret.rects) :
             ret.rects[k] = << faces[i][1] + rects_upperbody[j][1],
                               faces[i][2] + rects_upperbody[j][2],
                               faces[i][3] + rects_upperbody[j][1],
                               faces[i][4] + rects_upperbody[j][2] >>

\* C10: a play call writes the last-play timestamp exactly when it loaded and played
\* a sample: a suppressed call, a call on an unregistered name and a call on a
\* directory without .wav file leave the timestamp and the bindings as they were; a
\* call that played, with use_pps or without, sets the timestamp to the clock.
C10_StampOnlyOnPlay ==
  [][/\ last_play_time' # last_play_time =>
          (result'.sample # NoSample /\ result'.stamped /\ last_play_time' = now')
     /\ result' # result =>
          LET played == result'.sample # NoSample IN
            /\ result'.stamped <=> played
            /\ ~played => (last_play_time' = last_play_time /\ categories' = categories)
            /\ played => last_play_time' = now'
            /\ (result'.exc = "none" /\ ~result'.use_pps) => played]_vars

C10_Witness ==
  /\ result.op = "play" /\ result.use_pps /\ result.n > 0 /\ result.mixer
  /\ ~result.due /\ now > 0
  /\ result.sample = NoSample /\ ~result.stamped /\ last_play_time < now
====
